---- MODULE Spec2Model ----
(***************************************************************************)
(* Overlay / modal subsystem of the admin console front end:               *)
(* OverlayManager, BaseModal and its variants (EditCreateModal,            *)
(* ErrorModal, DialogueModal), the Preloader, the global show* entry       *)
(* points, the page-load handlers and the login form handler.              *)
(*                                                                         *)
(* All handlers run to completion on the UI event loop, so every action    *)
(* below is one whole handler.  The handlers are written as operators on   *)
(* a record w ("the world") holding the program state, so that a handler   *)
(* that calls another (submitForm -> close -> decrementOverlay) is the      *)
(* composition of the operators.                                           *)
(***************************************************************************)
EXTENDS Integers, Sequences, FiniteSets, TLC

\* ---------------------------------------------------------------- bounds
MaxModals == 2      \* modal instances constructed in one run
MaxCalls  == 4      \* calls made to the overlay manager in one run
MaxLog    == 2      \* callback invocations recorded in one run
MaxLogins == 2      \* login timers pending at the same time

Kinds  == {"error", "dialogue", "form"}
Keys   == {"Escape", "Enter"}
Gestures == {"click", "wheel", "touchmove"}
Values == {"", "a"}
LoginInputs == {"", " ", "a"}   \* what the user typed into a login field
NoHandler == 0      \* this.escHandler is null / undefined
Undefined == 0      \* what a function without a return statement returns
DefaultMessage == "An error occurred. Please try again."
LoginError == "Please enter both username and password."
\* the template literal of the login page: `Welcome back, ${username}!...`
LoginWelcome(username) ==
  "Welcome back, " \o username \o "!\n\nRedirecting to dashboard..."
Messages == {"", LoginError}  \* message arguments of the pages

\* callers of the overlay manager other than the modals 1, 2, ...
PreloaderId == 0    \* the global preloader instance
PageId == -1        \* page code holding the overlayManager itself
\* no overlay or preloader listener has handled a pointer event yet
NoGesture == [type |-> "none", on |-> PageId, stopped |-> FALSE, prevented |-> FALSE]

\* field lists a form modal is constructed with (options.fields)
TextReq   == [name |-> "f", type |-> "text",   required |-> TRUE,  options |-> {}]
SelectOpt == [name |-> "g", type |-> "select", required |-> FALSE, options |-> {"a"}]
SelectReq == [name |-> "h", type |-> "select", required |-> TRUE,  options |-> {"a"}]
FieldLists == { <<TextReq>> }
\* field lists the pages pass to showEditCreateForm
FormFields == { <<SelectReq>>, <<TextReq, SelectOpt>> }
\* the callbacks a form modal is constructed with: <<onConfirm, onCancel>>
FormCallbacks == { <<TRUE, TRUE>>, <<TRUE, FALSE>>, <<FALSE, FALSE>> }

\* the options objects the modals are constructed with
Options == { [kind |-> "error",    onConfirm |-> FALSE, onCancel |-> TRUE],
             [kind |-> "dialogue", onConfirm |-> TRUE,  onCancel |-> TRUE],
             [kind |-> "form",     onConfirm |-> TRUE,  onCancel |-> TRUE] }

VARIABLES
  overlayCount,        \* overlayManager.overlayCount
  bodyPointerEvents,   \* document.body.style.pointerEvents
  bodyOverflow,        \* document.body.style.overflow
  modals,              \* the modal instances constructed so far, in order
  keydownListeners,    \* 'keydown' listeners registered on document, in order
  isVisible,           \* preloader.isVisible
  calls,               \* history: calls made to the overlay manager, <<op, caller>>
  cbLog,               \* history: callbacks invoked, [m, cb, payload (the arguments)]
  gesture,             \* the last click / wheel / touchmove event an overlay or
                       \* preloader listener handled, as the listener left it
  returned,            \* what the last call of a global entry point returned
  destroyCalled,       \* history: the modals destroy() has been called on
  loadFired,           \* window 'load' has been dispatched
  dclState,            \* DOMContentLoaded: "pending", "timer" (fallback armed), "done"
  loginTimers          \* pending login setTimeout callbacks, FIFO: the username
                       \* and password constants each closure captured

vars == << overlayCount, bodyPointerEvents, bodyOverflow, modals,
           keydownListeners, isVisible, calls, cbLog, gesture, returned,
           destroyCalled, loadFired, dclState, loginTimers >>

\* the part of the state the handlers of main.js work on, as one record
World == [ count |-> overlayCount, pe |-> bodyPointerEvents, ov |-> bodyOverflow,
           modals |-> modals, listeners |-> keydownListeners, vis |-> isVisible,
           calls |-> calls, cbLog |-> cbLog, gesture |-> gesture,
           ret |-> returned, destroyCalled |-> destroyCalled ]

Commit(w) ==
  /\ overlayCount' = w.count
  /\ bodyPointerEvents' = w.pe
  /\ bodyOverflow' = w.ov
  /\ modals' = w.modals
  /\ keydownListeners' = w.listeners
  /\ isVisible' = w.vis
  /\ calls' = w.calls
  /\ cbLog' = w.cbLog
  /\ gesture' = w.gesture
  /\ returned' = w.ret
  /\ destroyCalled' = w.destroyCalled

\* every history stays within its bound
Within(w) == Len(w.calls) <= MaxCalls /\ Len(w.cbLog) <= MaxLog

\* ------------------------------------------------------ OverlayManager
\* variant: the count goes up but the page is never blocked
incrementOverlay_NoBlock(w, by) ==
  [w EXCEPT !.count = w.count + 1, !.calls = Append(@, <<"inc", by>>)]

incrementOverlay(w, by) ==
  LET c == w.count + 1 IN
  [w EXCEPT !.count = c,
            !.pe = IF c = 1 THEN "none" ELSE @,
            !.ov = IF c = 1 THEN "hidden" ELSE @,
            !.calls = Append(@, <<"inc", by>>)]

\* variant: the count is not floored at zero
decrementOverlay_NoFloor(w, by) ==
  LET c == w.count - 1 IN
  [w EXCEPT !.count = c,
            !.pe = IF c <= 0 THEN "auto" ELSE @,
            !.ov = IF c <= 0 THEN "auto" ELSE @,
            !.calls = Append(@, <<"dec", by>>)]

\* variant: every exit re-enables the body
decrementOverlay_AlwaysUnblock(w, by) ==
  LET c == w.count - 1 IN
  [w EXCEPT !.count = IF c <= 0 THEN 0 ELSE c,
            !.pe = "auto",
            !.ov = "auto",
            !.calls = Append(@, <<"dec", by>>)]

\* variant: the body is re-enabled one exit early
decrementOverlay_OffByOne(w, by) ==
  LET c == w.count - 1 IN
  [w EXCEPT !.count = IF c <= 1 THEN 0 ELSE c,
            !.pe = IF c <= 1 THEN "auto" ELSE @,
            !.ov = IF c <= 1 THEN "auto" ELSE @,
            !.calls = Append(@, <<"dec", by>>)]

decrementOverlay(w, by) ==
  LET c == w.count - 1 IN
  [w EXCEPT !.count = IF c <= 0 THEN 0 ELSE c,
            !.pe = IF c <= 0 THEN "auto" ELSE @,
            !.ov = IF c <= 0 THEN "auto" ELSE @,
            !.calls = Append(@, <<"dec", by>>)]

isActive(w) == w.count > 0

\* ----------------------------------------------------------- BaseModal
\* a closure created by open(): fresh identity, bound to its modal
HandlerIds(ls) == { ls[i].id : i \in 1..Len(ls) }
NewHandlerId(ls) == CHOOSE n \in 1..(Len(ls) + 1) :
                      /\ n \notin HandlerIds(ls)
                      /\ \A k \in 1..(n - 1) : k \in HandlerIds(ls)

removeEventListener(ls, id) == SelectSeq(ls, LAMBDA l : l.id # id)

\* (after destroy() this.overlay is null: the first statement throws a
\* TypeError and nothing has been done)
open(w, m) ==
  IF w.modals[m].destroyed THEN w
  ELSE
  LET w1 == [w EXCEPT !.modals[m].shown = TRUE]
      w2 == incrementOverlay(w1, m)
      h  == NewHandlerId(w2.listeners)
  IN [w2 EXCEPT !.modals[m].escHandler = h,
                !.listeners = Append(@, [id |-> h, m |-> m])]

\* variant: onCancel is invoked only when an escape handler was installed
close_CancelInsideIf(w, m) ==
  IF w.modals[m].destroyed THEN w
  ELSE
  LET w1 == [w EXCEPT !.modals[m].shown = FALSE]
      w2 == decrementOverlay(w1, m)
  IN IF w2.modals[m].escHandler # NoHandler
     THEN LET w3 == [w2 EXCEPT !.listeners = removeEventListener(@, w2.modals[m].escHandler),
                               !.modals[m].escHandler = NoHandler]
          IN IF w3.modals[m].onCancel
             THEN [w3 EXCEPT !.cbLog = Append(@, [m |-> m, cb |-> "onCancel", payload |-> <<>>])]
             ELSE w3
     ELSE w2

\* variant: close() that carries on when the overlay is gone
close_WithoutOverlay(w, m) ==
  LET w1 == IF w.modals[m].destroyed THEN w ELSE [w EXCEPT !.modals[m].shown = FALSE]
      w2 == decrementOverlay(w1, m)
      w3 == IF w2.modals[m].escHandler # NoHandler
            THEN [w2 EXCEPT !.listeners = removeEventListener(@, w2.modals[m].escHandler),
                            !.modals[m].escHandler = NoHandler]
            ELSE w2
  IN IF w3.modals[m].onCancel
     THEN [w3 EXCEPT !.cbLog = Append(@, [m |-> m, cb |-> "onCancel", payload |-> <<>>])]
     ELSE w3

\* (after destroy() the first statement throws, as in open())
close(w, m) ==
  IF w.modals[m].destroyed THEN w
  ELSE
  LET w1 == [w EXCEPT !.modals[m].shown = FALSE]
      w2 == decrementOverlay(w1, m)
      w3 == IF w2.modals[m].escHandler # NoHandler
            THEN [w2 EXCEPT !.listeners = removeEventListener(@, w2.modals[m].escHandler),
                            !.modals[m].escHandler = NoHandler]
            ELSE w2
  IN IF w3.modals[m].onCancel
     THEN [w3 EXCEPT !.cbLog = Append(@, [m |-> m, cb |-> "onCancel", payload |-> <<>>])]
     ELSE w3

\* the event as a listener of an overlay surface leaves it: the click listener
\* calls e.stopPropagation(), the wheel and touchmove listeners e.preventDefault()
Handled(type, on) ==
  [type |-> type, on |-> on, stopped |-> (type = "click"), prevented |-> (type # "click")]

\* variant: a click on the overlay closes the modal
overlayListener_ClickCloses(w, m, type) ==
  IF type = "click" /\ w.modals[m].shown
  THEN close([w EXCEPT !.gesture = Handled(type, m)], m)
  ELSE [w EXCEPT !.gesture = Handled(type, m)]

\* the click / wheel / touchmove listeners of a modal's overlay
overlayListener(w, m, type) == [w EXCEPT !.gesture = Handled(type, m)]

\* destroy(): the overlay leaves the document and the references to it are
\* dropped; on a destroyed modal this.overlay.remove() throws
destroy(w, m) ==
  IF w.modals[m].destroyed THEN w
  ELSE [w EXCEPT !.modals[m].destroyed = TRUE, !.destroyCalled = @ \cup {m}]

\* createModal(): a new overlay (without the class 'show') and a new
\* element with the header and its close button, an empty body and an empty
\* footer replace the instance's references; the overlay it held before stays
\* in the document, displayed if it carried 'show', with its listeners and
\* its controls still bound to the instance; this.escHandler and the overlay
\* count are not touched
createModal(w, m) ==
  [w EXCEPT !.modals[m].orphans = IF w.modals[m].shown /\ ~w.modals[m].destroyed
                                  THEN @ + 1 ELSE @,
            !.modals[m].stale = @ \/ ~w.modals[m].destroyed,
            !.modals[m].orphanWired = @ \/ (/\ w.modals[m].shown
                                            /\ ~w.modals[m].destroyed
                                            /\ w.modals[m].footer = "setup"),
            !.modals[m].shown = FALSE,
            !.modals[m].destroyed = FALSE,
            !.modals[m].body = "empty",
            !.modals[m].footer = "empty",
            !.modals[m].reported = FALSE]

\* init(): this.createModal()
init(w, m) == createModal(w, m)

\* setContent(html): the body's innerHTML is replaced (a form in it goes, with
\* its validation feedback); on a destroyed modal this.element is null and
\* the first statement throws
setContent(w, m) ==
  IF w.modals[m].destroyed THEN w
  ELSE [w EXCEPT !.modals[m].body = "custom", !.modals[m].reported = FALSE]

\* setFooter(html): the footer's innerHTML is replaced, the buttons the
\* variant wired go
setFooter(w, m) ==
  IF w.modals[m].destroyed THEN w
  ELSE [w EXCEPT !.modals[m].footer = "custom"]

\* variant: confirm() that closes the dialogue after the callback
confirm_ThenClose(w, m) ==
  close(IF w.modals[m].onConfirm
        THEN [w EXCEPT !.cbLog = Append(@, [m |-> m, cb |-> "onConfirm", payload |-> <<>>])]
        ELSE w, m)

confirm(w, m) ==
  IF w.modals[m].onConfirm
  THEN [w EXCEPT !.cbLog = Append(@, [m |-> m, cb |-> "onConfirm", payload |-> <<>>])]
  ELSE w

\* escHandler: the listener body installed by open()
escHandler(w, l, key) == IF key = "Escape" THEN close(w, l.m) ELSE w

\* document.dispatchEvent(keydown): the listeners registered when the dispatch
\* starts run in registration order; one removed meanwhile is skipped
RECURSIVE dispatch(_, _, _, _)
dispatch(w, snap, i, key) ==
  IF i > Len(snap) THEN w
  ELSE IF snap[i].id \in HandlerIds(w.listeners)
       THEN dispatch(escHandler(w, snap[i], key), snap, i + 1, key)
       ELSE dispatch(w, snap, i + 1, key)

\* variant: only the first registered listener hears the key
keydown_FirstListenerOnly(w, key) ==
  IF w.listeners = <<>> THEN w ELSE escHandler(w, w.listeners[1], key)

keydown(w, key) == dispatch(w, w.listeners, 1, key)

\* ------------------------------- BaseModal before the overlay manager
\* (frontend/js/main.js): open() and close() write body.style.overflow
\* themselves, and confirm() closes the modal after the callback
legacyOpen(w, m) ==
  IF w.modals[m].destroyed THEN w
  ELSE [w EXCEPT !.modals[m].shown = TRUE, !.ov = "hidden"]

legacyClose(w, m) ==
  IF w.modals[m].destroyed THEN w
  ELSE LET w1 == [w EXCEPT !.modals[m].shown = FALSE, !.ov = "auto"]
       IN IF w1.modals[m].onCancel
          THEN [w1 EXCEPT !.cbLog = Append(@, [m |-> m, cb |-> "onCancel", payload |-> <<>>])]
          ELSE w1

legacyConfirm(w, m) ==
  legacyClose(IF w.modals[m].onConfirm
              THEN [w EXCEPT !.cbLog = Append(@, [m |-> m, cb |-> "onConfirm", payload |-> <<>>])]
              ELSE w, m)

\* ----------------------------------------------------- EditCreateModal
\* createInputField: the value the rendered control starts with
initialValue(field, value) ==
  IF field.type = "select"
  THEN IF value \in field.options THEN value ELSE ""
  ELSE value

\* variant: a form that is always valid
checkValidity_Lenient(mod) == TRUE

\* form.checkValidity(): a control with the required attribute needs a value
checkValidity(mod) ==
  \A i \in 1..Len(mod.formFields) :
     mod.formFields[i].required => mod.values[i] # ""

FieldNames(mod) == { mod.formFields[i].name : i \in 1..Len(mod.formFields) }

\* getFormData: FormData entries folded into an object, later keys overwrite
getFormData(mod) ==
  [ n \in FieldNames(mod) |->
      LET last == CHOOSE i \in 1..Len(mod.formFields) :
                    /\ mod.formFields[i].name = n
                    /\ \A j \in (i + 1)..Len(mod.formFields) : mod.formFields[j].name # n
      IN mod.values[last] ]

\* variant: submitForm() that closes before it calls onConfirm
submitForm_CloseFirst(w, m) ==
  IF w.modals[m].destroyed \/ w.modals[m].body # "setup" THEN w
  ELSE IF ~checkValidity(w.modals[m]) THEN [w EXCEPT !.modals[m].reported = TRUE]
  ELSE LET w1 == close(w, m)
       IN IF w.modals[m].onConfirm
          THEN [w1 EXCEPT !.cbLog = Append(@, [m |-> m, cb |-> "onConfirm",
                                               payload |-> <<getFormData(w.modals[m])>>])]
          ELSE w1

\* (without this.element, or without the form in the body, the lookup of the
\* form gives nothing to validate: a TypeError before anything is done)
submitForm(w, m) ==
  IF w.modals[m].destroyed \/ w.modals[m].body # "setup" THEN w
  ELSE IF ~checkValidity(w.modals[m]) THEN [w EXCEPT !.modals[m].reported = TRUE]
  ELSE LET w1 == IF w.modals[m].onConfirm
                 THEN [w EXCEPT !.cbLog = Append(@, [m |-> m, cb |-> "onConfirm",
                                                     payload |-> <<getFormData(w.modals[m])>>])]
                 ELSE w
       IN close(w1, m)

\* setupForm(): the form is rendered again from this.data and the footer
\* buttons are made and wired again (setContent throws on a destroyed modal)
setupForm(w, m) ==
  IF w.modals[m].destroyed THEN w
  ELSE [w EXCEPT !.modals[m].body = "setup",
                 !.modals[m].footer = "setup",
                 !.modals[m].reported = FALSE,
                 !.modals[m].values =
                    [ i \in 1..Len(w.modals[m].formFields) |->
                        initialValue(w.modals[m].formFields[i], w.modals[m].data[i]) ]]

\* submitForm() of the earlier BaseModal (frontend/js/main.js): the same
\* steps, closing through its own close()
legacySubmitForm(w, m) ==
  IF w.modals[m].destroyed \/ w.modals[m].body # "setup" THEN w
  ELSE IF ~checkValidity(w.modals[m]) THEN [w EXCEPT !.modals[m].reported = TRUE]
  ELSE LET w1 == IF w.modals[m].onConfirm
                 THEN [w EXCEPT !.cbLog = Append(@, [m |-> m, cb |-> "onConfirm",
                                                     payload |-> <<getFormData(w.modals[m])>>])]
                 ELSE w
       IN legacyClose(w1, m)

\* ----------------------------------------------------------- ErrorModal
\* setupError() / setupDialogue(): the message is rendered into the body and
\* the footer buttons are made and wired again
setupError(w, m) ==
  IF w.modals[m].destroyed THEN w
  ELSE [w EXCEPT !.modals[m].body = "setup", !.modals[m].footer = "setup"]

setupDialogue(w, m) ==
  IF w.modals[m].destroyed THEN w
  ELSE [w EXCEPT !.modals[m].body = "setup", !.modals[m].footer = "setup"]

\* variant: setMessage() that opens the modal again
setMessage_Reopens(w, m, message) ==
  open([w EXCEPT !.modals[m].message = message,
                 !.modals[m].body = IF w.modals[m].destroyed THEN @ ELSE "setup"], m)

\* setMessage: this.message is assigned, then setContent() renders it into
\* the body (and throws on a destroyed modal); the footer with the Close
\* button is not rendered again (the call returns its receiver)
setMessage(w, m, message) ==
  [w EXCEPT !.modals[m].message = message,
            !.modals[m].body = IF w.modals[m].destroyed THEN @ ELSE "setup"]

\* ------------------------------------------------------------ Preloader
\* variant: show() without the isVisible guard
show_NoGuard(w) == incrementOverlay([w EXCEPT !.vis = TRUE], PreloaderId)

show(w) ==
  IF ~w.vis THEN incrementOverlay([w EXCEPT !.vis = TRUE], PreloaderId) ELSE w

\* variant: hide() without the isVisible guard
hide_NoGuard(w) == decrementOverlay([w EXCEPT !.vis = FALSE], PreloaderId)

hide(w) ==
  IF w.vis THEN decrementOverlay([w EXCEPT !.vis = FALSE], PreloaderId) ELSE w

\* variant: a click on the preloader hides it
preloaderListener_ClickHides(w, type) ==
  IF type = "click"
  THEN hide([w EXCEPT !.gesture = Handled(type, PreloaderId)])
  ELSE [w EXCEPT !.gesture = Handled(type, PreloaderId)]

\* the click / wheel / touchmove listeners of the preloader element
preloaderListener(w, type) == [w EXCEPT !.gesture = Handled(type, PreloaderId)]

\* --------------------------------------------------------- constructors
\* ErrorModal constructor: options.message || the default text
ErrorMessage(message) == IF message = "" THEN DefaultMessage ELSE message

NewModal(kind, onConfirm, onCancel, fields, data, message) ==
  [ kind |-> kind, onConfirm |-> onConfirm, onCancel |-> onCancel,
    shown |-> FALSE, escHandler |-> NoHandler,
    message |-> message,
    reported |-> FALSE,      \* form.reportValidity() has shown its feedback
    destroyed |-> FALSE,     \* this.overlay and this.element are null
    body |-> "setup",        \* what the modal body holds: "setup" (what the
                             \* variant rendered: its message or its form),
                             \* "custom" (html given to setContent, without a
                             \* form) or "empty" (a fresh body)
    footer |-> "setup",      \* the footer: "setup" (the variant's buttons with
                             \* their listeners), "custom" (html given to
                             \* setFooter: no listeners) or "empty"
    orphans |-> 0,           \* displayed overlays an earlier createModal() left
    stale |-> FALSE,         \* an overlay createModal() replaced is in the document
                             \* with the class 'show', out of the instance's reach
    orphanWired |-> FALSE,   \* one of them holds the variant's wired footer
    data |-> data,           \* this.data: the values setupForm() renders
    formFields |-> fields,
    values |-> [ i \in 1..Len(fields) |-> initialValue(fields[i], data[i]) ] ]

construct(w, mod) == [w EXCEPT !.modals = Append(@, mod)]

DataFor(fields) == [ 1..Len(fields) -> Values ]

\* the global entry points
showError(w, message) ==
  LET w1 == construct(w, NewModal("error", FALSE, FALSE, <<>>, <<>>, ErrorMessage(message)))
      w2 == open(w1, Len(w1.modals))
  IN [w2 EXCEPT !.ret = Undefined]

showConfirm(w, message, onConfirm) ==
  LET w1 == construct(w, NewModal("dialogue", onConfirm, FALSE, <<>>, <<>>, message))
      w2 == open(w1, Len(w1.modals))
  IN [w2 EXCEPT !.ret = Len(w1.modals)]

showEditCreateForm(w, fields, onSubmit, data) ==
  LET w1 == construct(w, NewModal("form", onSubmit, FALSE, fields, data, ""))
      w2 == open(w1, Len(w1.modals))
  IN [w2 EXCEPT !.ret = Len(w1.modals)]

\* the global entry points of the earlier main.js: the same constructions,
\* opened through its own open()
legacyShowError(w, message) ==
  LET w1 == construct(w, NewModal("error", FALSE, FALSE, <<>>, <<>>, ErrorMessage(message)))
      w2 == legacyOpen(w1, Len(w1.modals))
  IN [w2 EXCEPT !.ret = Undefined]

legacyShowConfirm(w, message, onConfirm) ==
  LET w1 == construct(w, NewModal("dialogue", onConfirm, FALSE, <<>>, <<>>, message))
      w2 == legacyOpen(w1, Len(w1.modals))
  IN [w2 EXCEPT !.ret = Len(w1.modals)]

legacyShowEditCreateForm(w, fields, onSubmit, data) ==
  LET w1 == construct(w, NewModal("form", onSubmit, FALSE, fields, data, ""))
      w2 == legacyOpen(w1, Len(w1.modals))
  IN [w2 EXCEPT !.ret = Len(w1.modals)]

Created == 1..Len(modals)
\* the modal's overlay is in the document and carries the class 'show'
Shown(m) == modals[m].shown /\ ~modals[m].destroyed
\* a displayed overlay of the modal holds the close button: the instance's
\* own overlay, shown, or one an init() left displayed
CloseButtonShown(m) == Shown(m) \/ modals[m].orphans > 0
\* an overlay of the modal is in the document with its click, wheel and
\* touchmove listeners: the instance's own overlay until destroy() removes it,
\* or one a createModal() replaced (destroy() never removes that one)
OverlayInDocument(m) == ~modals[m].destroyed \/ modals[m].stale
\* a displayed overlay of the modal holds the variant's wired footer buttons
FooterShown(m) ==
  (Shown(m) /\ modals[m].footer = "setup") \/ modals[m].orphanWired

\* ------------------------------------------------------------------ Init
Init ==
  /\ overlayCount = 0
  /\ bodyPointerEvents = ""
  /\ bodyOverflow = ""
  /\ modals = <<>>
  /\ keydownListeners = <<>>
  /\ isVisible = FALSE
  /\ calls = <<>>
  /\ cbLog = <<>>
  /\ gesture = NoGesture
  /\ returned = Undefined
  /\ destroyCalled = {}
  /\ loadFired = FALSE
  /\ dclState = "pending"
  /\ loginTimers = <<>>

Page == << loadFired, dclState, loginTimers >>

\* --------------------------------------------------------------- actions
Step(w) == Within(w) /\ Commit(w) /\ UNCHANGED Page

\* new ErrorModal / DialogueModal / EditCreateModal (options): the options
\* carry no message, so an error modal takes the default text and a dialogue
\* the empty string (a form modal has no message)
Construct ==
  /\ Len(modals) + Len(loginTimers) < MaxModals
  /\ \E o \in Options :
       \E fields \in (IF o.kind = "form" THEN FieldLists ELSE {<<>>}) :
         \E data \in DataFor(fields) :
           Step(construct(World, NewModal(o.kind, o.onConfirm, o.onCancel, fields, data,
                                          IF o.kind = "error" THEN DefaultMessage ELSE "")))

\* modal.open() called by page code
Open(m) == m \in Created /\ Step(open(World, m))

\* modal.close() called by page code
Close(m) == m \in Created /\ Step(close(World, m))

\* a click on a control of the modal, on the instance's overlay or on one an
\* init() left displayed: the control's own listener runs on the instance,
\* then the event bubbles to the click listener of the overlay clicked

\* click on the header close button (every modal has one)
ClickClose(m) ==
  /\ m \in Created /\ CloseButtonShown(m)
  /\ Step(overlayListener(close(World, m), m, "click"))

\* click on #cancel-btn / #dialogue-cancel-btn
ClickCancel(m) ==
  /\ m \in Created /\ FooterShown(m) /\ modals[m].kind \in {"form", "dialogue"}
  /\ Step(overlayListener(close(World, m), m, "click"))

\* click on #error-close-btn
ClickAcknowledge(m) ==
  /\ m \in Created /\ FooterShown(m) /\ modals[m].kind = "error"
  /\ Step(overlayListener(close(World, m), m, "click"))

\* click on #dialogue-confirm-btn
ClickConfirm(m) ==
  /\ m \in Created /\ FooterShown(m) /\ modals[m].kind = "dialogue"
  /\ Step(overlayListener(confirm(World, m), m, "click"))

\* click on #submit-btn
ClickSubmit(m) ==
  /\ m \in Created /\ FooterShown(m) /\ modals[m].kind = "form"
  /\ Step(overlayListener(submitForm(World, m), m, "click"))

\* the user edits a control of a shown form; the browser takes the validation
\* feedback away on the next input
Input(m) ==
  /\ m \in Created /\ Shown(m) /\ modals[m].kind = "form"
  /\ modals[m].body = "setup"
  /\ \E i \in 1..Len(modals[m].formFields), v \in Values :
       /\ modals[m].formFields[i].type = "select" => v \in modals[m].formFields[i].options \cup {""}
       /\ v # modals[m].values[i]
       /\ Step([World EXCEPT !.modals[m].values[i] = v, !.modals[m].reported = FALSE])

\* a key is pressed
KeyPress(key) == key \in Keys /\ Step(keydown(World, key))
KeyDown == \E key \in Keys : KeyPress(key)

\* preloader.show() / preloader.hide() called by page code
Show ==
  /\ Within(show(World))
  /\ Commit(show(World))
  /\ UNCHANGED Page
Hide ==
  /\ Within(hide(World))
  /\ Commit(hide(World))
  /\ UNCHANGED Page

\* window 'load' listener
WindowLoad ==
  /\ ~loadFired
  /\ Within(hide(World)) /\ Commit(hide(World))
  /\ loadFired' = TRUE
  /\ UNCHANGED << dclState, loginTimers >>

\* document 'DOMContentLoaded' listener: arms the 500 ms fallback timer
DomContentLoaded ==
  /\ dclState = "pending"
  /\ dclState' = "timer"
  /\ UNCHANGED << overlayCount, bodyPointerEvents, bodyOverflow, modals,
                  keydownListeners, isVisible, calls, cbLog, gesture, returned,
                  destroyCalled, loadFired, loginTimers >>

\* the fallback timer's callback
FallbackTimer ==
  /\ dclState = "timer"
  /\ LET w == IF World.vis THEN hide(World) ELSE World
     IN Within(w) /\ Commit(w)
  /\ dclState' = "done"
  /\ UNCHANGED << loadFired, loginTimers >>

\* String.prototype.trim on the login inputs
trim(str) == IF str = " " THEN "" ELSE str

\* loginForm 'submit' listener: shows the preloader, arms the 1500 ms timer
\* (the bounds of a run stop new submits, never a timer that is armed)
LoginSubmit ==
  /\ Len(loginTimers) < MaxLogins
  /\ Len(modals) + Len(loginTimers) < MaxModals
  /\ \E usernameField \in LoginInputs, passwordField \in LoginInputs :
       /\ Within(show(World)) /\ Commit(show(World))
       /\ loginTimers' = Append(loginTimers, [username |-> trim(usernameField),
                                              password |-> passwordField])
  /\ UNCHANGED << loadFired, dclState >>

\* variant: the timer's callback opens the result modal over the preloader
LoginTimer_KeepsPreloader ==
  /\ loginTimers # <<>>
  /\ LET w2 == IF Head(loginTimers).username = "" \/ Head(loginTimers).password = ""
               THEN showError(World, LoginError)
               ELSE showConfirm(World, LoginWelcome(Head(loginTimers).username), TRUE)
     IN Commit(w2)
  /\ loginTimers' = Tail(loginTimers)
  /\ UNCHANGED << loadFired, dclState >>

\* the login timer's callback
LoginTimer ==
  /\ loginTimers # <<>>
  /\ LET w1 == hide(World)
         w2 == IF Head(loginTimers).username = "" \/ Head(loginTimers).password = ""
               THEN showError(w1, LoginError)
               ELSE showConfirm(w1, LoginWelcome(Head(loginTimers).username), TRUE)
     IN Commit(w2)
  /\ loginTimers' = Tail(loginTimers)
  /\ UNCHANGED << loadFired, dclState >>

\* overlayManager.incrementOverlay() / decrementOverlay() called by page code
IncrementOverlay ==
  /\ Within(incrementOverlay(World, PageId))
  /\ Commit(incrementOverlay(World, PageId))
  /\ UNCHANGED Page
DecrementOverlay ==
  /\ Within(decrementOverlay(World, PageId))
  /\ Commit(decrementOverlay(World, PageId))
  /\ UNCHANGED Page

\* the modals and the preloader opened and closed through their methods
\* and the Escape key
Next ==
  \/ Construct
  \/ \E m \in 1..MaxModals : Open(m)
  \/ \E m \in 1..MaxModals : Close(m)
  \/ KeyDown
  \/ Show
  \/ Hide

Spec == Init /\ [][Next]_vars

\* every way a modal is closed: close() called by page code, the modal's
\* controls, a valid submit and the Escape key
NextClose ==
  \/ Construct
  \/ \E m \in 1..MaxModals : Open(m)
  \/ \E m \in 1..MaxModals : Close(m)
  \/ \E m \in 1..MaxModals : ClickClose(m)
  \/ \E m \in 1..MaxModals : ClickCancel(m)
  \/ \E m \in 1..MaxModals : ClickAcknowledge(m)
  \/ \E m \in 1..MaxModals : ClickSubmit(m)
  \/ KeyDown

SpecClose == Init /\ [][NextClose]_vars

\* the overlay manager driven directly and through the preloader
NextOM ==
  \/ IncrementOverlay
  \/ DecrementOverlay
  \/ Show
  \/ Hide

SpecOM == Init /\ [][NextOM]_vars

\* the pages as shipped: load handlers, login flow and the user's input
NextPage ==
  \/ WindowLoad
  \/ DomContentLoaded
  \/ FallbackTimer
  \/ LoginSubmit
  \/ LoginTimer
  \/ \E m \in 1..MaxModals : ClickClose(m)
  \/ \E m \in 1..MaxModals : ClickCancel(m)
  \/ \E m \in 1..MaxModals : ClickAcknowledge(m)
  \/ \E m \in 1..MaxModals : ClickConfirm(m)
  \/ KeyDown

SpecPage == Init /\ [][NextPage]_vars

\* the login page once it is loaded: submits, their timers and the user's
\* input on the result modals
NextLogin ==
  \/ LoginSubmit
  \/ LoginTimer
  \/ \E m \in 1..MaxModals : ClickClose(m)
  \/ \E m \in 1..MaxModals : ClickCancel(m)
  \/ \E m \in 1..MaxModals : ClickAcknowledge(m)
  \/ \E m \in 1..MaxModals : ClickConfirm(m)
  \/ KeyDown

\* setTimeout: an armed login timer eventually runs its callback
SpecLogin == Init /\ [][NextLogin]_vars /\ WF_vars(LoginTimer)

\* page code calls a global entry point
ShowErrorCall ==
  /\ Len(modals) < MaxModals
  /\ \E message \in Messages : Step(showError(World, message))

ShowConfirmCall ==
  /\ Len(modals) < MaxModals
  /\ \E message \in Messages, onConfirm \in BOOLEAN :
       Step(showConfirm(World, message, onConfirm))

ShowEditCreateFormCall ==
  /\ Len(modals) < MaxModals
  /\ \E fields \in FormFields, onSubmit \in BOOLEAN :
       \E data \in DataFor(fields) : Step(showEditCreateForm(World, fields, onSubmit, data))

\* the user clicks, scrolls or drags on an overlay of the modal, outside the
\* modal
OverlayGesture(m) ==
  /\ m \in Created /\ OverlayInDocument(m)
  /\ \E type \in Gestures : Step(overlayListener(World, m, type))

\* the user clicks, scrolls or drags on the preloader
PreloaderGesture ==
  \E type \in Gestures :
    /\ Within(preloaderListener(World, type))
    /\ Commit(preloaderListener(World, type))
    /\ UNCHANGED Page

\* modal.confirm() / form.submitForm() called by page code on an instance
\* it holds, shown or not
Confirm(m) == m \in Created /\ Step(confirm(World, m))

SubmitForm(m) ==
  /\ m \in Created /\ modals[m].kind = "form"
  /\ Step(submitForm(World, m))

\* modals made by the global entry points only, closed by the user only
NextApi ==
  \/ ShowErrorCall
  \/ ShowConfirmCall
  \/ ShowEditCreateFormCall
  \/ \E m \in 1..MaxModals : ClickClose(m)
  \/ \E m \in 1..MaxModals : ClickCancel(m)
  \/ \E m \in 1..MaxModals : ClickAcknowledge(m)
  \/ \E m \in 1..MaxModals : ClickConfirm(m)
  \/ \E m \in 1..MaxModals : ClickSubmit(m)
  \/ KeyDown

SpecApi == Init /\ [][NextApi]_vars

\* dialogues made by showConfirm, confirmed by the user or by page code
\* through the instance returned to it, and closed by the user
NextConfirm ==
  \/ ShowConfirmCall
  \/ \E m \in 1..MaxModals : ClickConfirm(m)
  \/ \E m \in 1..MaxModals : Confirm(m)
  \/ \E m \in 1..MaxModals : ClickCancel(m)
  \/ \E m \in 1..MaxModals : ClickClose(m)
  \/ KeyDown

SpecConfirm == Init /\ [][NextConfirm]_vars

\* options.data || {} of a form made to create a record: no value given
NoData(fields) == [ i \in 1..Len(fields) |-> "" ]

\* page code constructs a form modal without data and opens it:
\* new EditCreateModal({ fields, onConfirm, onCancel }).open()
OpenForm ==
  /\ Len(modals) < MaxModals
  /\ \E fields \in FormFields, cb \in FormCallbacks :
       LET w1 == construct(World, NewModal("form", cb[1], cb[2], fields, NoData(fields), ""))
       IN Step(open(w1, Len(w1.modals)))

\* form modals, opened by page code and filled in and submitted by the user
NextForm ==
  \/ OpenForm
  \/ \E m \in 1..MaxModals : ClickSubmit(m)
  \/ \E m \in 1..MaxModals : Input(m)
  \/ KeyDown

SpecForm == Init /\ [][NextForm]_vars

\* page code constructs an error modal: new ErrorModal(options)
ConstructError ==
  /\ Len(modals) < MaxModals
  /\ \E message \in Messages :
       Step(construct(World, NewModal("error", FALSE, TRUE, <<>>, <<>>,
                                      ErrorMessage(message))))

\* page code replaces the text of an error modal it holds
SetMessage(m) ==
  /\ m \in Created /\ modals[m].kind = "error"
  /\ \E message \in Messages : Step(setMessage(World, m, message))

\* modal.setContent(html) / modal.setFooter(html) called by page code
SetContent(m) == m \in Created /\ Step(setContent(World, m))

SetFooter(m) == m \in Created /\ Step(setFooter(World, m))

\* error modals held by page code, acknowledged by the user
NextError ==
  \/ ConstructError
  \/ \E m \in 1..MaxModals : Open(m)
  \/ \E m \in 1..MaxModals : ClickAcknowledge(m)
  \/ \E m \in 1..MaxModals : SetMessage(m)
  \/ \E m \in 1..MaxModals : SetContent(m)
  \/ KeyDown

SpecError == Init /\ [][NextError]_vars

\* modal.destroy() called by page code
Destroy(m) == m \in Created /\ Step(destroy(World, m))

\* page code constructs an error modal without a message:
\* new ErrorModal({ onCancel })
ConstructDefaultError ==
  /\ Len(modals) < MaxModals
  /\ Step(construct(World, NewModal("error", FALSE, TRUE, <<>>, <<>>, ErrorMessage(""))))

\* modal.init() called again by page code
Reinit(m) == m \in Created /\ Step(init(World, m))

\* modal.createModal() called again by page code
CreateModal(m) == m \in Created /\ Step(createModal(World, m))

\* modal.init() called by page code on a modal it has destroyed
Revive(m) == m \in Created /\ modals[m].destroyed /\ Reinit(m)

\* modal.createModal() called by page code on a modal it has destroyed
Rebuild(m) == m \in Created /\ modals[m].destroyed /\ CreateModal(m)

\* modals that page code opens, closes, destroys and initialises again
NextDestroy ==
  \/ ConstructDefaultError
  \/ \E m \in 1..MaxModals : Open(m)
  \/ \E m \in 1..MaxModals : Close(m)
  \/ \E m \in 1..MaxModals : Destroy(m)
  \/ \E m \in 1..MaxModals : Revive(m)
  \/ \E m \in 1..MaxModals : Rebuild(m)
  \/ KeyDown

SpecDestroy == Init /\ [][NextDestroy]_vars

\* the earlier BaseModal: modal.open() / modal.close() / modal.confirm()
\* called by page code (or, for the last two, by the click on a button: the
\* overlay's click listener only acts on clicks on the overlay itself)
LegacyOpen(m) == m \in Created /\ Step(legacyOpen(World, m))

LegacyClose(m) == m \in Created /\ Step(legacyClose(World, m))

LegacyConfirm(m) == m \in Created /\ Step(legacyConfirm(World, m))

\* modal.submitForm() of a form modal, called by page code or by the click
\* on #submit-btn
LegacySubmitForm(m) ==
  /\ m \in Created /\ modals[m].kind = "form"
  /\ Step(legacySubmitForm(World, m))

\* page code calls a global entry point of the earlier main.js
LegacyShowErrorCall ==
  /\ Len(modals) < MaxModals
  /\ \E message \in Messages : Step(legacyShowError(World, message))

LegacyShowConfirmCall ==
  /\ Len(modals) < MaxModals
  /\ \E message \in Messages, onConfirm \in BOOLEAN :
       Step(legacyShowConfirm(World, message, onConfirm))

LegacyShowEditCreateFormCall ==
  /\ Len(modals) < MaxModals
  /\ \E onSubmit \in BOOLEAN :
       \E data \in DataFor(<<TextReq>>) :
         Step(legacyShowEditCreateForm(World, <<TextReq>>, onSubmit, data))

NextLegacy ==
  \/ Construct
  \/ \E m \in 1..MaxModals : LegacyOpen(m)
  \/ \E m \in 1..MaxModals : LegacyClose(m)
  \/ \E m \in 1..MaxModals : LegacyConfirm(m)
  \/ \E m \in 1..MaxModals : LegacySubmitForm(m)
  \/ LegacyShowErrorCall
  \/ LegacyShowConfirmCall
  \/ LegacyShowEditCreateFormCall

SpecLegacy == Init /\ [][NextLegacy]_vars

\* the overlay surfaces under the user's pointer and keyboard
NextSurface ==
  \/ ShowErrorCall
  \/ ShowConfirmCall
  \/ \E m \in 1..MaxModals : ClickClose(m)
  \/ \E m \in 1..MaxModals : OverlayGesture(m)
  \/ PreloaderGesture
  \/ KeyDown
  \/ Show
  \/ Hide

SpecSurface == Init /\ [][NextSurface]_vars

\* the overlays of error modals that page code shows, initialises again and
\* destroys, under the user's pointer
NextOverlay ==
  \/ ShowErrorCall
  \/ \E m \in 1..MaxModals : Reinit(m)
  \/ \E m \in 1..MaxModals : Destroy(m)
  \/ \E m \in 1..MaxModals : OverlayGesture(m)

SpecOverlay == Init /\ [][NextOverlay]_vars

\* the kit as the pages use it: modals made by the global entry points and
\* closed by the user, around the preloader
NextKit ==
  \/ ShowErrorCall
  \/ ShowConfirmCall
  \/ ShowEditCreateFormCall
  \/ \E m \in 1..MaxModals : ClickClose(m)
  \/ \E m \in 1..MaxModals : ClickCancel(m)
  \/ \E m \in 1..MaxModals : ClickAcknowledge(m)
  \/ \E m \in 1..MaxModals : ClickSubmit(m)
  \/ KeyDown
  \/ Show
  \/ Hide

SpecKit == Init /\ [][NextKit]_vars

\* page code constructs a form modal with one required text field:
\* new EditCreateModal({ fields, data, onConfirm, onCancel })
ConstructForm ==
  /\ Len(modals) < MaxModals
  /\ \E data \in DataFor(<<TextReq>>) :
       Step(construct(World, NewModal("form", TRUE, TRUE, <<TextReq>>, data, "")))

\* modal.setupForm() / setupError() / setupDialogue() called again by page
\* code
Setup(m) ==
  /\ m \in Created
  /\ Step(CASE modals[m].kind = "form" -> setupForm(World, m)
           [] modals[m].kind = "error" -> setupError(World, m)
           [] OTHER -> setupDialogue(World, m))

\* form modals whose body, footer and overlay page code replaces through the
\* public methods of BaseModal and its variants
NextMethods ==
  \/ ConstructForm
  \/ \E m \in 1..MaxModals : SetContent(m)
  \/ \E m \in 1..MaxModals : SetFooter(m)
  \/ \E m \in 1..MaxModals : Reinit(m)
  \/ \E m \in 1..MaxModals : Setup(m)
  \/ \E m \in 1..MaxModals : Open(m)
  \/ \E m \in 1..MaxModals : SubmitForm(m)
  \/ \E m \in 1..MaxModals : ClickSubmit(m)
  \/ \E m \in 1..MaxModals : ClickCancel(m)

SpecMethods == Init /\ [][NextMethods]_vars

\* ------------------------------------------------------------ properties
Blocked == bodyPointerEvents = "none" /\ bodyOverflow = "hidden"

\* the count obtained by replaying a call history, each exit floored at zero
RECURSIVE Replayed(_)
Replayed(h) ==
  IF h = <<>> THEN 0
  ELSE LET before == Replayed(SubSeq(h, 1, Len(h) - 1))
       IN IF h[Len(h)][1] = "inc" THEN before + 1
          ELSE IF before > 0 THEN before - 1 ELSE 0

\* number of calls op made by caller `by` in a history
RECURSIVE CountCalls(_, _, _)
CountCalls(h, op, by) ==
  IF h = <<>> THEN 0
  ELSE CountCalls(Tail(h), op, by) + (IF Head(h) = <<op, by>> THEN 1 ELSE 0)

\* number of invocations of callback cb of modal m in a callback log
RECURSIVE CountCb(_, _, _)
CountCb(log, m, cb) ==
  IF log = <<>> THEN 0
  ELSE CountCb(Tail(log), m, cb) + (IF Head(log).m = m /\ Head(log).cb = cb THEN 1 ELSE 0)

\* what a caller currently holds of the count: its enters minus its exits
Contribution(by) == CountCalls(calls, "inc", by) - CountCalls(calls, "dec", by)

\* C1: for every sequence of incrementOverlay()/decrementOverlay() calls the
\* count is never negative, a decrementOverlay() at count 0 leaves it at 0, and
\* isActive() is true exactly when the replay of the sequence with every exit
\* floored at zero is greater than 0.
C1_FlooredCount ==
  /\ overlayCount >= 0
  /\ (calls # <<>> /\ calls[Len(calls)][1] = "dec"
        /\ Replayed(SubSeq(calls, 1, Len(calls) - 1)) = 0) => overlayCount = 0
  /\ isActive(World) <=> Replayed(calls) > 0

\* more exits than enters so far, an exit at zero among them, and active again
C1_Witness ==
  /\ Len(calls) >= 3
  /\ calls[1][1] = "dec"
  /\ calls[Len(calls)][1] = "inc"
  /\ Cardinality({i \in 1..Len(calls) : calls[i][1] = "dec"})
       > Cardinality({i \in 1..Len(calls) : calls[i][1] = "inc"})
  /\ isActive(World)

\* C2: in every reachable state the background is blocked (pointer-events
\* 'none' and overflow 'hidden') if and only if overlayCount > 0.
C2_BlockedIffCount == Blocked <=> overlayCount > 0

\* one overlay left after another one closed: still blocked
C2_Witness ==
  /\ overlayCount = 1 /\ Blocked
  /\ calls # <<>> /\ calls[Len(calls)][1] = "dec"

\* C3: whenever at least one modal is shown or the preloader is visible,
\* isActive() is true and the background is blocked, so that closing one
\* overlay never unblocks the page while another is still open.
C3_OpenOverlayBlocks ==
  ((\E m \in Created : Shown(m)) \/ isVisible) => (isActive(World) /\ Blocked)

\* C4: open() on a modal that is already open does not change overlayCount.
C4_ReopenKeepsCount ==
  [][\A m \in 1..MaxModals : (Open(m) /\ Shown(m)) => overlayCount' = overlayCount]_vars

\* C5: a close() on a modal that is not open leaves overlayCount and the
\* background-blocking state unchanged.
C5_RedundantCloseAbsorbed ==
  [][\A m \in 1..MaxModals :
       (Close(m) /\ ~Shown(m)) => (overlayCount' = overlayCount /\ Blocked' = Blocked)]_vars
\* C6: for any interleaving of show()/hide() calls made by the login submit
\* handler, the login timer, the window 'load' handler and the fallback timer,
\* the preloader holds 1 of the overlay count exactly when isVisible is true
\* and 0 otherwise (show() while visible and hide() while hidden do nothing).
C6_PreloaderHoldsOne == Contribution(PreloaderId) = (IF isVisible THEN 1 ELSE 0)

\* 'load' called hide() while hidden, then two submits called show()
C6_Witness ==
  /\ loadFired /\ Len(loginTimers) = 2 /\ isVisible
  /\ calls = << <<"inc", PreloaderId>> >>

\* C7: opening two overlays and closing both leaves overlayCount at 0 and the
\* page unblocked with nothing shown, whichever is closed first; after only
\* the first close the page is still blocked.
C7_TwoOverlays ==
  \A a \in Created \cup {PreloaderId}, b \in Created \cup {PreloaderId} :
    a # b =>
      LET opened == << <<"inc", a>>, <<"inc", b>> >> IN
      /\ calls \in { opened \o << <<"dec", a>>, <<"dec", b>> >>,
                     opened \o << <<"dec", b>>, <<"dec", a>> >> }
           => /\ overlayCount = 0
              /\ bodyPointerEvents = "auto" /\ bodyOverflow = "auto"
              /\ \A m \in Created : ~Shown(m) /\ modals[m].escHandler = NoHandler
              /\ ~isVisible
              /\ keydownListeners = <<>>
      /\ calls \in { opened \o << <<"dec", a>> >>, opened \o << <<"dec", b>> >> }
           => overlayCount = 1 /\ Blocked

\* a modal and the preloader opened, then closed in the order they were opened
C7_Witness ==
  /\ Len(modals) >= 1
  /\ calls = << <<"inc", 1>>, <<"inc", PreloaderId>>, <<"dec", 1>>, <<"dec", PreloaderId>> >>
  /\ overlayCount = 0

\* C8: an Escape key press closes every open Dialogue exactly once (its
\* onCancel invoked once, one exit of the overlay count); an Escape key press
\* while no overlay is open changes nothing.
C8_EscapeClosesOnce ==
  [][KeyPress("Escape") =>
       /\ \A m \in Created :
            (Shown(m) /\ modals[m].kind = "dialogue") =>
              /\ ~modals'[m].shown
              /\ CountCalls(calls', "dec", m) = CountCalls(calls, "dec", m) + 1
              /\ modals[m].onCancel =>
                   CountCb(cbLog', m, "onCancel") = CountCb(cbLog, m, "onCancel") + 1
       /\ ((\A m \in Created : ~Shown(m)) /\ ~isVisible) =>
            UNCHANGED << overlayCount, cbLog, calls >>]_vars

\* C9: after close() returns, no escape-key listener installed by that modal
\* remains registered on the document.
C9_NoListenerAfterClose ==
  [][\A m \in 1..MaxModals :
       Close(m) => \A i \in 1..Len(keydownListeners') : keydownListeners'[i].m # m]_vars

\* C10: every execution of close() on a modal with a registered onCancel
\* invokes onCancel exactly once with no payload, on every exit path; after a
\* successful form submission onCancel runs right after onConfirm.
ClosePath(m) == Close(m) \/ ClickClose(m) \/ ClickCancel(m) \/ ClickAcknowledge(m)

OnCancelEntry(m) == [m |-> m, cb |-> "onCancel", payload |-> <<>>]

C10_ClosesMatchCancels ==
  /\ \A m \in Created :
       modals[m].onCancel => CountCalls(calls, "dec", m) = CountCb(cbLog, m, "onCancel")
  /\ \A i \in 1..Len(cbLog) :
       /\ cbLog[i].cb = "onCancel" => cbLog[i].payload = <<>>
       /\ (cbLog[i].cb = "onConfirm" /\ Len(cbLog[i].payload) = 1
             /\ modals[cbLog[i].m].onCancel)
            => (i < Len(cbLog) /\ cbLog[i + 1] = OnCancelEntry(cbLog[i].m))

C10_OnCancelOncePerClose ==
  /\ []C10_ClosesMatchCancels
  /\ [][\A m \in 1..MaxModals :
          \* (the exit recorded for m is tested first: every close path makes it)
          (/\ m \in Created /\ modals[m].onCancel
           /\ calls' = Append(calls, <<"dec", m>>)
           /\ ClosePath(m)) => cbLog' = Append(cbLog, OnCancelEntry(m))]_vars

\* a valid form was submitted: onConfirm(data), then onCancel()
C10_Witness ==
  \E i \in 1..Len(cbLog) :
    /\ cbLog[i].cb = "onConfirm" /\ Len(cbLog[i].payload) = 1
    /\ i < Len(cbLog) /\ cbLog[i + 1] = OnCancelEntry(cbLog[i].m)
    /\ ~Shown(cbLog[i].m)

\* C11: confirm() invokes onConfirm exactly once if it is registered and does
\* not close: after the confirm action of a dialogue opened by showConfirm the
\* callback has one more invocation (without arguments), the dialogue is still
\* open, the overlay count is unchanged and its Escape listener is still
\* installed.
C11_ConfirmKeepsOpen ==
  [][\A m \in 1..MaxModals :
       (ClickConfirm(m) \/ Confirm(m)) =>
         /\ cbLog' = IF modals[m].onConfirm
                     THEN Append(cbLog, [m |-> m, cb |-> "onConfirm", payload |-> <<>>])
                     ELSE cbLog
         /\ ClickConfirm(m) =>
              /\ modals'[m].shown
              /\ modals'[m].escHandler \in HandlerIds(keydownListeners')
         /\ UNCHANGED << overlayCount, bodyPointerEvents, bodyOverflow, calls,
                         modals, keydownListeners >>]_vars

\* a dialogue whose confirm action ran once is still open and still counted
C11_Witness ==
  \E m \in Created :
    /\ modals[m].kind = "dialogue" /\ Shown(m)
    /\ CountCb(cbLog, m, "onConfirm") = 1
    /\ overlayCount = 1
    /\ modals[m].escHandler \in HandlerIds(keydownListeners)

\* C12: a click on the overlay outside the modal surface, and wheel or
\* touchmove gestures on the overlay, never close the modal: the open state of
\* every modal, the overlay count and the callbacks' invocation counts are
\* the same after the gesture as before it.
C12_OverlayGestureInert ==
  [][\A m \in 1..MaxModals :
       OverlayGesture(m) =>
         /\ gesture'.on = m /\ gesture'.type \in Gestures
         /\ \A k \in Created : modals'[k].shown = modals[k].shown
         /\ UNCHANGED << overlayCount, bodyPointerEvents, bodyOverflow,
                         cbLog, calls, keydownListeners, isVisible >>]_vars

\* the overlay of an open modal took a click, and the modal is still open
C12_Witness ==
  /\ gesture.type = "click" /\ gesture.stopped
  /\ gesture.on \in Created
  /\ Shown(gesture.on)
  /\ overlayCount = 1

\* C19: the user cannot dismiss the preloader: an Escape key press and a
\* click, wheel or touchmove on the preloader never change isVisible, which
\* changes only through show() and hide() (each then makes its one call to
\* the overlay manager).
C19_PreloaderNotDismissible ==
  /\ [][(KeyPress("Escape") \/ PreloaderGesture) => isVisible' = isVisible]_vars
  /\ [][isVisible' # isVisible =>
          calls' = Append(calls, <<IF isVisible' THEN "inc" ELSE "dec", PreloaderId>>)]_vars

\* the visible preloader took a click and is still visible
C19_Witness ==
  /\ isVisible
  /\ gesture = Handled("click", PreloaderId)
  /\ Contribution(PreloaderId) = 1
  /\ overlayCount >= 1

\* a required control of the form is empty
MissingRequired(m) ==
  \E i \in 1..Len(modals[m].formFields) :
    modals[m].formFields[i].required /\ modals[m].values[i] = ""

\* C13: submitForm() on a form modal with a required field whose value is
\* empty does not invoke onConfirm, does not close the modal, does not invoke
\* onCancel and leaves the overlay count unchanged; it only shows the
\* validation feedback.
C13_InvalidSubmitInert ==
  [][\A m \in 1..MaxModals :
       (ClickSubmit(m) /\ MissingRequired(m)) =>
         /\ modals' = [modals EXCEPT ![m].reported = TRUE]
         /\ modals'[m].shown
         /\ UNCHANGED << cbLog, overlayCount, bodyPointerEvents, bodyOverflow,
                         calls, keydownListeners >>]_vars

\* an open form refused a submit: feedback shown, no callback, still counted
C13_Witness ==
  \E m \in Created :
    /\ Shown(m) /\ modals[m].reported /\ MissingRequired(m)
    /\ modals[m].onConfirm /\ modals[m].onCancel
    /\ cbLog = <<>>
    /\ overlayCount = 1

\* the object a submit hands to onConfirm: the value of every declared field
IsFormData(d, m) ==
  /\ DOMAIN d = { modals[m].formFields[i].name : i \in 1..Len(modals[m].formFields) }
  /\ \A i \in 1..Len(modals[m].formFields) :
       d[modals[m].formFields[i].name] = modals[m].values[i]

\* C14: when every required field of an open form modal has a non-empty
\* value, submitForm() invokes onConfirm (if registered) exactly once with a
\* mapping that has a key for every declared field name, and only afterwards
\* closes the modal: the close makes its one exit of the overlay count, which
\* goes down by exactly one, and its onCancel call comes after onConfirm.
C14_ValidSubmitConfirmsThenCloses ==
  [][\A m \in 1..MaxModals :
       (ClickSubmit(m) /\ ~MissingRequired(m)) =>
         LET n == Len(cbLog)
             confirmed == IF modals[m].onConfirm THEN 1 ELSE 0
             cancelled == IF modals[m].onCancel THEN 1 ELSE 0
         IN /\ Len(cbLog') = n + confirmed + cancelled
            /\ SubSeq(cbLog', 1, n) = cbLog
            /\ modals[m].onConfirm =>
                 /\ cbLog'[n + 1].m = m /\ cbLog'[n + 1].cb = "onConfirm"
                 /\ Len(cbLog'[n + 1].payload) = 1
                 /\ IsFormData(cbLog'[n + 1].payload[1], m)
            /\ modals[m].onCancel => cbLog'[n + confirmed + 1] = OnCancelEntry(m)
            /\ ~modals'[m].shown
            /\ calls' = Append(calls, <<"dec", m>>)
            /\ overlayCount' = overlayCount - 1]_vars

\* a two-field form was submitted: onConfirm got both keys, then the form
\* closed and onCancel ran
C14_Witness ==
  \E m \in Created :
    /\ Len(modals[m].formFields) = 2 /\ ~Shown(m)
    /\ Len(cbLog) = 2
    /\ cbLog[1].m = m /\ cbLog[1].cb = "onConfirm"
    /\ DOMAIN cbLog[1].payload[1] = {"f", "g"}
    /\ cbLog[2] = OnCancelEntry(m)
    /\ calls = << <<"inc", m>>, <<"dec", m>> >>
    /\ overlayCount = 0

\* C15: submitForm() invokes onConfirm only if every select field has a value
\* present in its options list: every mapping handed to onConfirm holds, for
\* each select field, required or not, one of that field's options (never the
\* empty placeholder).
C15_SelectValueInOptions ==
  \A i \in 1..Len(cbLog) :
    (cbLog[i].cb = "onConfirm" /\ Len(cbLog[i].payload) = 1) =>
      \A j \in 1..Len(modals[cbLog[i].m].formFields) :
        LET field == modals[cbLog[i].m].formFields[j]
        IN field.type = "select" => cbLog[i].payload[1][field.name] \in field.options

\* C16: starting with no overlay open, opening an ErrorModal (showError) makes
\* the overlay count 1 and blocks the page; a click on its acknowledge (Close)
\* action then runs the close path and brings the count back to 0 with the
\* page unblocked.
C16_ErrorModalRoundTrip ==
  /\ [][(ShowErrorCall /\ overlayCount = 0) =>
          /\ overlayCount' = 1 /\ Blocked'
          /\ modals'[Len(modals')].kind = "error" /\ modals'[Len(modals')].shown]_vars
  /\ [][\A m \in 1..MaxModals :
          (ClickAcknowledge(m) /\ overlayCount = 1) =>
            /\ overlayCount' = 0
            /\ bodyPointerEvents' = "auto" /\ bodyOverflow' = "auto"
            /\ ~modals'[m].shown
            /\ calls' = Append(calls, <<"dec", m>>)
            /\ \A i \in 1..Len(keydownListeners') : keydownListeners'[i].m # m]_vars

\* an error modal was shown from the idle page and then acknowledged
C16_Witness ==
  /\ Len(modals) = 1 /\ modals[1].kind = "error" /\ ~Shown(1)
  /\ calls = << <<"inc", 1>>, <<"dec", 1>> >>
  /\ overlayCount = 0 /\ bodyPointerEvents = "auto" /\ bodyOverflow = "auto"

\* C18: each global entry point (showError, showConfirm, showEditCreateForm)
\* constructs a new modal of the matching variant, opens it (the overlay count
\* goes up by one) and returns that opened instance to the caller.
C18_EntryPointsReturnInstance ==
  [][(ShowErrorCall \/ ShowConfirmCall \/ ShowEditCreateFormCall) =>
       LET new == Len(modals') IN
       /\ new = Len(modals) + 1
       /\ ShowErrorCall => modals'[new].kind = "error"
       /\ ShowConfirmCall => modals'[new].kind = "dialogue"
       /\ ShowEditCreateFormCall => modals'[new].kind = "form"
       /\ modals'[new].shown
       /\ overlayCount' = overlayCount + 1
       /\ returned' = new]_vars

\* C17: ErrorModal.setMessage(message) replaces the displayed message on the
\* same instance and leaves the modal's open/closed state, the overlay count,
\* its Escape listener and its acknowledge action unchanged, whether the modal
\* is open or closed.
C17_SetMessageOnlyMessage ==
  [][\A m \in 1..MaxModals :
       SetMessage(m) =>
         /\ \E message \in Messages :
              modals' = [modals EXCEPT ![m].message = message, ![m].body = "setup"]
         /\ modals'[m].shown = modals[m].shown
         /\ modals'[m].escHandler = modals[m].escHandler
         /\ modals'[m].footer = modals[m].footer
         /\ UNCHANGED << overlayCount, bodyPointerEvents, bodyOverflow, calls,
                         cbLog, keydownListeners >>]_vars

\* an open error modal shows a text only setMessage can have given it, and is
\* counted once with its one Escape listener
C17_Witness ==
  \E m \in Created :
    /\ modals[m].kind = "error" /\ modals[m].message = "" /\ modals[m].body = "setup"
    /\ Shown(m) /\ overlayCount = 1
    /\ calls = << <<"inc", m>> >>
    /\ keydownListeners = << [id |-> modals[m].escHandler, m |-> m] >>

\* the last result modal is open and the preloader is out of the way
ResultShown == modals # <<>> /\ Shown(Len(modals)) /\ ~isVisible

\* C20: in the login flow every form submit shows the preloader and, once its
\* timer callback runs, the preloader is hidden before exactly one result
\* modal is opened (an ErrorModal when the username, trimmed, or the password
\* is empty, a dialogue otherwise); with the timer eventually firing, every
\* submit is eventually followed by the preloader hidden and its result modal
\* open.
C20_LoginFlow ==
  /\ [][LoginSubmit => (isVisible' /\ Len(loginTimers') = Len(loginTimers) + 1)]_vars
  /\ [][LoginTimer =>
          LET new == Len(modals')
              empty == Head(loginTimers).username = "" \/ Head(loginTimers).password = ""
          IN /\ new = Len(modals) + 1
             /\ \A m \in Created : modals'[m] = modals[m]
             /\ modals'[new].kind = IF empty THEN "error" ELSE "dialogue"
             /\ modals'[new].shown
             /\ ~isVisible'
             /\ calls' = calls \o (IF isVisible THEN << <<"dec", PreloaderId>> >> ELSE << >>)
                               \o << <<"inc", new>> >>]_vars
  /\ (loginTimers # <<>>) ~> ResultShown

\* a login with an empty field went through: preloader shown, then hidden,
\* then the error modal opened
C20_Witness ==
  /\ Len(modals) = 1 /\ modals[1].kind = "error" /\ Shown(1)
  /\ ~isVisible /\ loginTimers = <<>>
  /\ calls = << <<"inc", PreloaderId>>, <<"dec", PreloaderId>>, <<"inc", 1>> >>
  /\ overlayCount = 1

\* C21: when modals are created only through showError / showConfirm /
\* showEditCreateForm and closed only through UI events (close button, cancel
\* or acknowledge button, Escape, successful submit), in every reachable state
\* the overlay count equals the number of modals shown plus 1 if the
\* preloader is visible.
C21_CountIsShownPlusPreloader ==
  overlayCount = Cardinality({ m \in Created : Shown(m) }) + (IF isVisible THEN 1 ELSE 0)

\* a modal and the preloader are up, after an earlier modal was closed
C21_Witness ==
  /\ overlayCount = 2 /\ isVisible
  /\ \E m, k \in Created : Shown(m) /\ ~Shown(k)

\* C22: from a login submit until that submit's own timer callback runs, the
\* preloader stays visible and the page stays blocked, under every
\* interleaving with the window 'load' handler, the DOMContentLoaded fallback
\* timer and further login submits.
C22_PendingLoginKeepsPreloader ==
  loginTimers # <<>> => (isVisible /\ Blocked)

\* the modals that are open, and: each of them was opened once, so that the
\* document holds exactly one Escape listener per open modal
ShownSet == { m \in Created : Shown(m) }

OpenedOnce ==
  /\ Len(keydownListeners) = Cardinality(ShownSet)
  /\ \A m \in ShownSet : \E i \in 1..Len(keydownListeners) :
       keydownListeners[i] = [id |-> modals[m].escHandler, m |-> m]

\* C23: each open modal installs its own document-level Escape listener, so
\* with n modals open (each opened once) a single Escape key press closes all
\* n of them, invokes each registered onCancel once and decrements the overlay
\* count by n.
C23_EscapeClosesAll ==
  [][(KeyPress("Escape") /\ OpenedOnce) =>
       LET n == Cardinality(ShownSet) IN
       /\ \A m \in Created : ~modals'[m].shown
       /\ \A m \in ShownSet :
            /\ CountCalls(calls', "dec", m) = CountCalls(calls, "dec", m) + 1
            /\ CountCb(cbLog', m, "onCancel") =
                 CountCb(cbLog, m, "onCancel") + (IF modals[m].onCancel THEN 1 ELSE 0)
       /\ Len(calls') = Len(calls) + n
       /\ Len(cbLog') = Len(cbLog) + Cardinality({ m \in ShownSet : modals[m].onCancel })
       /\ overlayCount' = overlayCount - n
       /\ keydownListeners' = << >>]_vars

\* two modals with onCancel were open together and both are closed, each
\* with its one exit and its one onCancel, in the order of their listeners
C23_Witness ==
  /\ Len(modals) = 2 /\ ~Shown(1) /\ ~Shown(2)
  /\ calls = << <<"inc", 1>>, <<"inc", 2>>, <<"dec", 1>>, <<"dec", 2>> >>
  /\ cbLog = << OnCancelEntry(1), OnCancelEntry(2) >>
  /\ overlayCount = 0 /\ keydownListeners = << >>

\* C24 (as stated): destroy() on a modal leaves the overlay count and the
\* modal's installed Escape listener unchanged, and after destroy() every
\* later open(), close() or Escape-triggered close on that modal fails before
\* it touches the overlay count or invokes onCancel: a modal destroyed while
\* open never releases its stack entry.
C24_DestroyedNeverReleases ==
  /\ [][\A m \in 1..MaxModals :
          Destroy(m) =>
            /\ modals'[m].destroyed
            /\ modals'[m].escHandler = modals[m].escHandler
            /\ UNCHANGED << overlayCount, bodyPointerEvents, bodyOverflow, calls,
                            cbLog, keydownListeners >>]_vars
  /\ [][\A m \in destroyCalled :
          /\ CountCalls(calls', "inc", m) = CountCalls(calls, "inc", m)
          /\ CountCalls(calls', "dec", m) = CountCalls(calls, "dec", m)
          /\ CountCb(cbLog', m, "onCancel") = CountCb(cbLog, m, "onCancel")]_vars

\* C24: destroy() on a modal leaves the overlay count and the modal's
\* installed Escape listener unchanged, and after destroy(), until
\* createModal() runs on that modal again (called directly or through init(),
\* the only code that gives the instance an overlay), every later open(),
\* close() or Escape-triggered close on it fails before it touches the overlay
\* count or invokes onCancel: until then a modal destroyed while open does not
\* release its stack entry. The flag modals[m].destroyed is set by destroy()
\* and cleared by createModal() alone (third conjunct), so "destroyed before
\* and after the step" is "no createModal() since destroy()".
C24_DestroyedModalIsInert ==
  /\ [][\A m \in 1..MaxModals :
          \* (destroy() on a modal that has its overlay; the plain tests first)
          (m \in Created /\ ~modals[m].destroyed /\ modals' # modals /\ Destroy(m)) =>
            /\ modals'[m].destroyed
            /\ modals'[m].escHandler = modals[m].escHandler
            /\ UNCHANGED << overlayCount, bodyPointerEvents, bodyOverflow, calls,
                            cbLog, keydownListeners >>]_vars
  /\ [][\A m \in Created :
          \* (a destroyed modal that is still destroyed after the step: init()
          \* has not run on it)
          (modals[m].destroyed /\ modals'[m].destroyed) =>
            /\ modals'[m] = modals[m]
            /\ \/ calls' = calls
               \/ /\ CountCalls(calls', "inc", m) = CountCalls(calls, "inc", m)
                  /\ CountCalls(calls', "dec", m) = CountCalls(calls, "dec", m)
            /\ \/ cbLog' = cbLog
               \/ CountCb(cbLog', m, "onCancel") = CountCb(cbLog, m, "onCancel")
            /\ \/ keydownListeners' = keydownListeners
               \/ \A i \in 1..Len(keydownListeners) :
                    keydownListeners[i].m = m =>
                      \E j \in 1..Len(keydownListeners') :
                        keydownListeners'[j] = keydownListeners[i]
            /\ UNCHANGED vars \/ ~(Open(m) \/ Close(m))]_vars
  /\ [][\A m \in Created :
          \* (the only step that ends the destroyed state is createModal(), and
          \* it neither enters nor exits the count nor invokes a callback)
          (modals[m].destroyed /\ ~modals'[m].destroyed) =>
            /\ Reinit(m) \/ CreateModal(m)
            /\ UNCHANGED << overlayCount, bodyPointerEvents, bodyOverflow, calls,
                            cbLog, keydownListeners >>]_vars

\* a modal destroyed while open still holds its entry of the count and its
\* Escape listener, with no other modal around
C24_Witness ==
  /\ Len(modals) = 1 /\ modals[1].destroyed /\ modals[1].shown
  /\ calls = << <<"inc", 1>> >> /\ cbLog = << >>
  /\ overlayCount = 1 /\ Blocked
  /\ keydownListeners = << [id |-> modals[1].escHandler, m |-> 1] >>

\* C25: in the BaseModal without the overlay manager (frontend/js/main.js),
\* for every sequence of open() / close() calls on several modals, body
\* scrolling is disabled (overflow 'hidden') whenever at least one modal is
\* shown.
C25_LegacyShownDisablesScroll ==
  (\E m \in Created : Shown(m)) => bodyOverflow = "hidden"
====
